---- MODULE Spec2Model ----
(***************************************************************************)
(* Model of the Claude Usage menu-bar application (src/claude_usage.py):   *)
(* the usage client, the countdown formatter, the refresh cycle, the       *)
(* display update and the settings flow.                                   *)
(*                                                                         *)
(* Encodings.  Strings the program builds are kept structured: a title is  *)
(* "Claude: " followed by a placeholder, a sentinel or a formatted         *)
(* percentage; a row is its label followed by its text.  Credential        *)
(* strings are sequences of one-character strings.  Percentages are in     *)
(* tenths of a percent; instants are in ticks, Resolution ticks a second.  *)
(***************************************************************************)
EXTENDS Integers, Sequences, FiniteSets, TLC

VARIABLES phase, store, api, usage_data, title, rows, http, raised, last, probe

vars == <<phase, store, api, usage_data, title, rows, http, raised, last, probe>>

-----------------------------------------------------------------------------
(* Bounds of the model *)

\* ticks per second: a clock reading may fall strictly between two seconds
Resolution == 2
\* clock readings of the refresh cycles range over 0..MaxNow ticks
MaxNow == 0
\* whole percents 0..MaxWhole are tried with fractions .0 .4 .5 .6
MaxWhole == 2
\* hours of the reset instants tried on the countdown formatter
MaxHours == 2

\* src/claude_usage.py:207, the prefix of the stored session key shown
KeyPrefixLen == 20

-----------------------------------------------------------------------------
(* JSON values of a usage response *)

\* percent_used of a window record: key missing, a number, a string, null
PctAbsent == [k |-> "absent", v |-> 0]
PctNum(p) == [k |-> "num", v |-> p]
PctStr == [k |-> "str", v |-> 0]
PctNull == [k |-> "null", v |-> 0]

\* resets_at of a window record: key missing, "", a falsy non-string (null,
\* 0), a truthy non-string (a number, a list), a string that is no ISO
\* timestamp, an ISO timestamp without zone, an ISO timestamp with zone
RstAbsent == [k |-> "absent", t |-> 0]
RstEmpty == [k |-> "empty", t |-> 0]
RstFalsy == [k |-> "falsy", t |-> 0]
RstNonStr == [k |-> "nonstr", t |-> 0]
RstGarbage == [k |-> "garbage", t |-> 0]
RstNaive == [k |-> "naive", t |-> 0]
RstAware(t) == [k |-> "aware", t |-> t]

\* the value under a window key: key missing, a falsy non-object (null, 0,
\* "", []), a truthy non-object, or an object (the empty object has both
\* fields missing)
WAbsent == [kind |-> "absent", pct |-> PctAbsent, reset |-> RstAbsent]
WNull == [kind |-> "null", pct |-> PctAbsent, reset |-> RstAbsent]
WOther == [kind |-> "other", pct |-> PctAbsent, reset |-> RstAbsent]
WDict(p, r) == [kind |-> "dict", pct |-> p, reset |-> r]
WEmpty == WDict(PctAbsent, RstAbsent)

\* a response body: a JSON object, a falsy non-object (null, [], 0, "",
\* false) or a truthy non-object (a non-empty list, a number, a string)
Obj(f, s, n, x) ==
    [kind |-> "object", five_hour |-> f, seven_day |-> s,
     seven_day_sonnet |-> n, extra |-> x]
BodyFalsy ==
    [kind |-> "falsy", five_hour |-> WAbsent, seven_day |-> WAbsent,
     seven_day_sonnet |-> WAbsent, extra |-> FALSE]
BodyTruthy ==
    [kind |-> "truthy", five_hour |-> WAbsent, seven_day |-> WAbsent,
     seven_day_sonnet |-> WAbsent, extra |-> FALSE]
\* Python's None, in usage_data and as get_usage's failure result
None ==
    [kind |-> "None", five_hour |-> WAbsent, seven_day |-> WAbsent,
     seven_day_sonnet |-> WAbsent, extra |-> FALSE]

\* Python truthiness of a window value and of a body
WTruthy(w) ==
    \/ w.kind = "other"
    \/ w.kind = "dict" /\ (w.pct.k # "absent" \/ w.reset.k # "absent")

RstTruthy(r) == r.k \in {"nonstr", "garbage", "naive", "aware"}

Truthy(d) ==
    \/ d.kind = "truthy"
    \/ /\ d.kind = "object"
       /\ \/ d.five_hour.kind # "absent"
          \/ d.seven_day.kind # "absent"
          \/ d.seven_day_sonnet.kind # "absent"
          \/ d.extra

-----------------------------------------------------------------------------
(* Displayed strings *)

CdNow == [k |-> "now", h |-> 0, m |-> 0]
CdUnknown == [k |-> "?", h |-> 0, m |-> 0]
CdHM(h, m) == [k |-> "hm", h |-> h, m |-> m]
CdM(m) == [k |-> "m", h |-> 0, m |-> m]

TitlePlaceholder == [kind |-> "placeholder", n |-> 0]
TitleSetup == [kind |-> "Setup", n |-> 0]
TitleError == [kind |-> "Error", n |-> 0]
TitlePct(n) == [kind |-> "pct", n |-> n]

RowLabel == [kind |-> "label", n |-> 0, cd |-> CdUnknown]
RowNotConfigured == [kind |-> "Not configured", n |-> 0, cd |-> CdUnknown]
RowNA == [kind |-> "N/A", n |-> 0, cd |-> CdUnknown]
RowUsage(n, cd) == [kind |-> "usage", n |-> n, cd |-> cd]

-----------------------------------------------------------------------------
(* Formatting *)

\* the format specification ".0f" applied to the number p/10: the nearest
\* integer to the float's value, a tie going to the even neighbour
Fmt0f_HalfUp(p) == (p + 5) \div 10

Fmt0f(p) ==
    LET q == p \div 10
        r == p % 10
    IN  IF r < 5 THEN q
        ELSE IF r > 5 THEN q + 1
        ELSE IF q % 2 = 0 THEN q ELSE q + 1

\* formatting percent_used with ".0f": a string raises ValueError and None
\* raises TypeError
FmtRaises(pct) ==
    IF pct.k = "str" THEN "ValueError"
    ELSE IF pct.k = "null" THEN "TypeError"
    ELSE "none"

format_time_until_StrictPast(reset_time, now) ==
    IF reset_time.k = "aware"
    THEN LET diff == reset_time.t - now
             secs == diff \div Resolution
         IN  IF diff < 0 THEN CdNow
             ELSE IF secs \div 3600 > 0
                  THEN CdHM(secs \div 3600, (secs % 3600) \div 60)
                  ELSE CdM((secs % 3600) \div 60)
    ELSE CdUnknown

format_time_until_PastOnFailure(reset_time, now) ==
    IF reset_time.k = "aware"
    THEN LET diff == reset_time.t - now
             secs == diff \div Resolution
         IN  IF diff <= 0 THEN CdNow
             ELSE IF secs \div 3600 > 0
                  THEN CdHM(secs \div 3600, (secs % 3600) \div 60)
                  ELSE CdM((secs % 3600) \div 60)
    ELSE CdNow

\* format_time_until: a non-string has no replace (AttributeError), a string
\* that is no ISO timestamp fails fromisoformat (ValueError), a timestamp
\* without zone cannot be subtracted from the zoned now (TypeError); all are
\* caught and give "?"
format_time_until(reset_time, now) ==
    IF reset_time.k = "aware"
    THEN LET diff == reset_time.t - now
             total == diff \div Resolution
             hours == total \div 3600
             remainder == total % 3600
             minutes == remainder \div 60
         IN  IF diff <= 0 THEN CdNow
             ELSE IF hours > 0 THEN CdHM(hours, minutes)
             ELSE CdM(minutes)
    ELSE CdUnknown

\* "format_time_until(x) if x else '?'"
TimeOf(reset, now) ==
    IF RstTruthy(reset) THEN format_time_until(reset, now) ELSE CdUnknown

-----------------------------------------------------------------------------
(* ClaudeUsageApp.update_display *)

\* d.get(key, {}): the value under the key, the empty object when missing
GetWindow(w) == IF w.kind = "absent" THEN WEmpty ELSE w

\* w.get("percent_used", 0)
GetPct(w) == IF w.pct.k = "absent" THEN PctNum(0) ELSE w.pct

\* "sonnet_data.get('percent_used', 0) if sonnet_data else None"
SonnetPct(w) == IF WTruthy(w) THEN GetPct(w) ELSE PctNull

\* lines 143-152: .get on a value that is no object raises AttributeError
ExtractRaises(d) ==
    \/ d.kind # "object"
    \/ GetWindow(d.five_hour).kind # "dict"
    \/ GetWindow(d.seven_day).kind # "dict"
    \/ WTruthy(d.seven_day_sonnet) /\ d.seven_day_sonnet.kind # "dict"

Display(t, r, e) == [title |-> t, rows |-> r, raised |-> e]

update_display_StaleSonnet(d, t, r, n1, n2, n3) ==
    IF ~Truthy(d) THEN Display(t, r, "none")
    ELSE IF ExtractRaises(d) THEN Display(t, r, "AttributeError")
    ELSE
    LET five == GetWindow(d.five_hour)
        seven == GetWindow(d.seven_day)
        sonnet_data == GetWindow(d.seven_day_sonnet)
        session_pct == GetPct(five)
        weekly_pct == GetPct(seven)
        sonnet_pct == SonnetPct(sonnet_data)
        t1 == TitlePct(Fmt0f(session_pct.v))
        r1 == [r EXCEPT !.Session =
                 RowUsage(Fmt0f(session_pct.v), TimeOf(five.reset, n1))]
        r2 == [r1 EXCEPT !.Weekly =
                 RowUsage(Fmt0f(weekly_pct.v), TimeOf(seven.reset, n2))]
        r3 == [r2 EXCEPT !.Sonnet =
                 IF sonnet_pct.k # "null"
                 THEN RowUsage(Fmt0f(sonnet_pct.v),
                               TimeOf(sonnet_data.reset, n3))
                 ELSE r.Sonnet]
    IN  IF FmtRaises(session_pct) # "none"
        THEN Display(t, r, FmtRaises(session_pct))
        ELSE IF FmtRaises(weekly_pct) # "none"
        THEN Display(t1, r1, FmtRaises(weekly_pct))
        ELSE IF sonnet_pct.k = "str"
        THEN Display(t1, r2, FmtRaises(sonnet_pct))
        ELSE Display(t1, r3, "none")

\* the display after update_display on usage_data d, from title t and rows r,
\* the three countdowns reading the clock at n1 <= n2 <= n3; raised names the
\* exception that ended it, the statements before it having taken effect
update_display(d, t, r, n1, n2, n3) ==
    IF ~Truthy(d) THEN Display(t, r, "none")
    ELSE IF ExtractRaises(d) THEN Display(t, r, "AttributeError")
    ELSE
    LET five == GetWindow(d.five_hour)
        seven == GetWindow(d.seven_day)
        sonnet_data == GetWindow(d.seven_day_sonnet)
        session_pct == GetPct(five)
        weekly_pct == GetPct(seven)
        sonnet_pct == SonnetPct(sonnet_data)
        t1 == TitlePct(Fmt0f(session_pct.v))
        r1 == [r EXCEPT !.Session =
                 RowUsage(Fmt0f(session_pct.v), TimeOf(five.reset, n1))]
        r2 == [r1 EXCEPT !.Weekly =
                 RowUsage(Fmt0f(weekly_pct.v), TimeOf(seven.reset, n2))]
        r3 == [r2 EXCEPT !.Sonnet =
                 IF sonnet_pct.k # "null"
                 THEN RowUsage(Fmt0f(sonnet_pct.v),
                               TimeOf(sonnet_data.reset, n3))
                 ELSE RowNA]
    IN  IF FmtRaises(session_pct) # "none"
        THEN Display(t, r, FmtRaises(session_pct))
        ELSE IF FmtRaises(weekly_pct) # "none"
        THEN Display(t1, r1, FmtRaises(weekly_pct))
        ELSE IF sonnet_pct.k = "str"
        THEN Display(t1, r2, FmtRaises(sonnet_pct))
        ELSE Display(t1, r3, "none")

-----------------------------------------------------------------------------
(* ClaudeAPI.get_usage and ClaudeUsageApp.refresh *)

\* what the HTTP layer does with the one request of a cycle: no request was
\* issued, the request failed in the network, the status was not 2xx, the
\* body was no JSON, or a JSON body came back
NoRequest == [kind |-> "none", body |-> None, sent |-> 0]
NetworkError == [kind |-> "network", body |-> None]
BadStatus == [kind |-> "status", body |-> None]
BadJson == [kind |-> "badjson", body |-> None]
Ok(b) == [kind |-> "ok", body |-> b]

\* get_usage: requests.RequestException is caught and None returned; the
\* connection errors, raise_for_status's HTTPError and json()'s
\* JSONDecodeError are all RequestExceptions
get_usage(resp) == IF resp.kind = "ok" THEN resp.body ELSE None

Issued_Retrying(resp) ==
    [kind |-> resp.kind, body |-> resp.body,
     sent |-> IF resp.kind = "ok" THEN 1 ELSE 2]

\* what a cycle that called get_usage leaves of its HTTP traffic: the answer
\* resp to the one requests.get of get_usage, which has no loop around it
Issued(resp) == [kind |-> resp.kind, body |-> resp.body, sent |-> 1]

Cycle(u, t, r, h, e) ==
    [usage_data |-> u, title |-> t, rows |-> r, http |-> h, raised |-> e]

NotConfiguredRows ==
    [Session |-> RowNotConfigured, Weekly |-> RowNotConfigured,
     Sonnet |-> RowNotConfigured]

refresh_ErrorResetsRows(a, u, t, r, resp, n1, n2, n3) ==
    IF ~a.set
    THEN Cycle(u, TitleSetup, NotConfiguredRows, NoRequest, "none")
    ELSE LET data == get_usage(resp)
             shown == update_display(data, t, r, n1, n2, n3)
         IN  IF ~Truthy(data)
             THEN Cycle(None, TitleError, NotConfiguredRows, Issued(resp), "none")
             ELSE Cycle(data, shown.title, shown.rows, Issued(resp), shown.raised)

refresh_SetupKeepsRows(a, u, t, r, resp, n1, n2, n3) ==
    IF ~a.set
    THEN Cycle(u, TitleSetup, r, NoRequest, "none")
    ELSE LET data == get_usage(resp)
             shown == update_display(data, t, r, n1, n2, n3)
         IN  IF ~Truthy(data)
             THEN Cycle(u, TitleError, r, Issued(resp), "none")
             ELSE Cycle(data, shown.title, shown.rows, Issued(resp), shown.raised)

\* refresh with client a, last snapshot u, title t and rows r, where the
\* HTTP layer answers resp, if asked
refresh(a, u, t, r, resp, n1, n2, n3) ==
    IF ~a.set
    THEN Cycle(u, TitleSetup, NotConfiguredRows, NoRequest, "none")
    ELSE LET data == get_usage(resp)
             shown == update_display(data, t, r, n1, n2, n3)
         IN  IF ~Truthy(data)
             THEN Cycle(u, TitleError, r, Issued(resp), "none")
             ELSE Cycle(data, shown.title, shown.rows, Issued(resp), shown.raised)

-----------------------------------------------------------------------------
(* Credentials: the keyring entries and the client built from them *)

\* str.strip(): leading and trailing whitespace removed
Strip_Identity(s) == s

RECURSIVE LStrip(_)
LStrip(s) == IF s # <<>> /\ Head(s) = " " THEN LStrip(Tail(s)) ELSE s

RECURSIVE RStrip(_)
RStrip(s) ==
    IF s # <<>> /\ s[Len(s)] = " " THEN RStrip(SubSeq(s, 1, Len(s) - 1)) ELSE s

Strip(s) == RStrip(LStrip(s))

\* an entry get_password finds missing reads as the empty string: the code
\* tests entries for truth only, or replaces None by "" (lines 180-181)
NoApi == [set |-> FALSE, session_key |-> <<>>, org_id |-> <<>>]
ClaudeAPI(session_key, org_id) ==
    [set |-> TRUE, session_key |-> session_key, org_id |-> org_id]

load_credentials(st) ==
    IF st.session_key # <<>> /\ st.org_id # <<>>
    THEN ClaudeAPI(st.session_key, st.org_id)
    ELSE NoApi

\* the text the session prompt shows before the user edits it
DefaultSessionText(current_session) ==
    IF Len(current_session) > KeyPrefixLen
    THEN SubSeq(current_session, 1, KeyPrefixLen) \o <<".", ".", ".">>
    ELSE current_session

-----------------------------------------------------------------------------
(* Inputs *)

\* percentages in tenths: every whole percent up to MaxWhole with the
\* fractions .0 .4 .5 .6, and the 73.4 of the specification's example
NumPcts == {10 * w + f : w \in 0..MaxWhole, f \in {0, 4, 5, 6}} \cup {734}

PctFields == {PctAbsent, PctStr, PctNull} \cup {PctNum(p) : p \in NumPcts}

\* reset instants: at tick 0, one tick later, 50 minutes and 125 minutes on
MainResetTicks == {0, 1, 50 * 60 * Resolution, 125 * 60 * Resolution}

ResetFields ==
    {RstAbsent, RstEmpty, RstFalsy, RstNonStr, RstGarbage, RstNaive}
        \cup {RstAware(t) : t \in MainResetTicks}

BaseWindow == WDict(PctNum(734), RstAware(125 * 60 * Resolution))

Windows ==
    {WNull, WOther, WEmpty}
        \cup {WDict(p, BaseWindow.reset) : p \in PctFields}
        \cup {WDict(BaseWindow.pct, r) : r \in ResetFields}

PlainWindows == {WAbsent, BaseWindow}

\* the JSON objects tried: every combination of window keys missing or
\* holding the base window, and each window value in turn under each key
\* while the other two keys are both missing or both hold the base window;
\* the object without window keys comes empty and with an unrelated key
Objects ==
    {Obj(f, s, n, FALSE) : f \in PlainWindows, s \in PlainWindows,
                           n \in PlainWindows}
        \cup {Obj(WAbsent, WAbsent, WAbsent, TRUE)}
        \cup UNION {{Obj(w, o, o, FALSE), Obj(o, w, o, FALSE),
                     Obj(o, o, w, FALSE)} : w \in Windows, o \in PlainWindows}

Responses ==
    {NetworkError, BadStatus, BadJson, Ok(BodyFalsy), Ok(BodyTruthy)}
        \cup {Ok(b) : b \in Objects}

\* the responses tried on every cycle of a whole run: each failure, the
\* bodies that are no object, the empty object, and objects that render
\* fully, raise before anything is shown, or raise part-way
OtherWindow == WDict(PctNum(25), RstAware(1))

MainObjects ==
    {Obj(WAbsent, WAbsent, WAbsent, FALSE),
     Obj(BaseWindow, BaseWindow, WAbsent, FALSE),
     Obj(OtherWindow, WAbsent, BaseWindow, FALSE),
     Obj(WAbsent, WAbsent, WEmpty, FALSE),
     Obj(WNull, BaseWindow, BaseWindow, FALSE),
     Obj(OtherWindow, WDict(PctStr, RstAbsent), WAbsent, FALSE)}

MainResponses ==
    {NetworkError, BadStatus, BadJson, Ok(BodyFalsy), Ok(BodyTruthy)}
        \cup {Ok(b) : b \in MainObjects}

Instants == 0..MaxNow

\* keyring contents and typed texts
ShortKey == <<"k">>
LongKey == [i \in 1..(KeyPrefixLen + 1) |-> IF i = 1 THEN "K" ELSE "x"]
OrgId == <<"o">>

\* what the keyring holds when the application starts
StoredCredentials ==
    {[session_key |-> <<>>, org_id |-> <<>>],
     [session_key |-> ShortKey, org_id |-> OrgId],
     [session_key |-> LongKey, org_id |-> OrgId]}

\* what the user types into the prompts: nothing, a blank, the key or the
\* organization id with blanks around it
TypedSessions == {<<>>, <<" ">>, <<" ">> \o ShortKey \o <<" ">>}
TypedOrgs == {<<>>, <<" ">>, OrgId \o <<" ">>}

-----------------------------------------------------------------------------
(* State *)

InitialRows == [Session |-> RowLabel, Weekly |-> RowLabel, Sonnet |-> RowLabel]

NoProbe == [reset |-> RstAbsent, now |-> 0, res |-> CdUnknown, done |-> FALSE]

\* last: the callback that ran most recently and, for open_settings, what
\* the user did at each prompt: the prompt was not shown, was cancelled, came
\* back with nothing but blanks, or with a text
NotShown == "-"
Cancelled == "cancel"
Entered(text) ==
    IF \A i \in 1..Len(text) : text[i] = " " THEN "blank" ELSE "text"

Callback(op) == [op |-> op, session |-> NotShown, org |-> NotShown]
Settings(session, org) == [op |-> "settings", session |-> session, org |-> org]

\* ClaudeUsageApp.__init__ up to the menu (lines 72-92), over any keyring
Init ==
    /\ phase = "constructing"
    /\ store \in StoredCredentials
    /\ api = NoApi
    /\ usage_data = None
    /\ title = TitlePlaceholder
    /\ rows = InitialRows
    /\ http = NoRequest
    /\ raised = "none"
    /\ last = Callback("none")
    /\ probe = NoProbe

\* one refresh cycle with client a, run by the callback that last records
\* as l, the HTTP layer answering with one of R
RunRefresh(a, l, R) ==
    \E resp \in R : \E n1 \in Instants : \E n2 \in n1..MaxNow :
    \E n3 \in n2..MaxNow :
        LET c == refresh(a, usage_data, title, rows, resp, n1, n2, n3)
        IN  /\ usage_data' = c.usage_data
            /\ title' = c.title
            /\ rows' = c.rows
            /\ http' = c.http
            /\ raised' = c.raised
            /\ last' = l

\* the rest of __init__ (lines 95-102): load the credentials, start the
\* timer, run the first refresh; an exception leaves main() and the process
Start(R) ==
    /\ phase = "constructing"
    /\ api' = load_credentials(store)
    /\ RunRefresh(api', Callback("start"), R)
    /\ phase' = IF raised' = "none" THEN "running" ELSE "crashed"
    /\ UNCHANGED <<store, probe>>

\* the timer's callback (line 98).  An exception that leaves a callback is
\* the host dispatcher's to handle: raised records it and the application
\* goes on
TimerTick(R) ==
    /\ phase = "running"
    /\ RunRefresh(api, Callback("timer"), R)
    /\ UNCHANGED <<phase, store, api, probe>>

RefreshNow_ReloadsCredentials(R) ==
    /\ phase = "running"
    /\ api' = load_credentials(store)
    /\ RunRefresh(api', Callback("refresh_now"), R)
    /\ UNCHANGED <<phase, store, probe>>

\* refresh_now, the "Refresh Now" item
RefreshNow(R) ==
    /\ phase = "running"
    /\ RunRefresh(api, Callback("refresh_now"), R)
    /\ UNCHANGED <<phase, store, api, probe>>

\* open_settings, the "Settings..." item.  Each action below is one path
\* through the handler, chosen by what the user does in its dialogs.

Untouched(l) ==
    /\ http' = NoRequest
    /\ raised' = "none"
    /\ last' = l
    /\ UNCHANGED <<phase, store, api, usage_data, title, rows, probe>>

\* the texts the two prompts can come back with: the default left as it is,
\* or something typed
SessionTexts == {DefaultSessionText(store.session_key)} \cup TypedSessions
OrgTexts == {store.org_id} \cup TypedOrgs

\* lines 199-201: the instructions alert answered "Open Claude Settings"
SettingsOpenBrowser ==
    /\ phase = "running"
    /\ Untouched(Settings(NotShown, NotShown))

\* lines 214-215: the session prompt cancelled
SettingsCancelSession ==
    /\ phase = "running"
    /\ \E text \in SessionTexts : Untouched(Settings(Cancelled, NotShown))

\* lines 230-231: the organization prompt cancelled
SettingsCancelOrg ==
    /\ phase = "running"
    /\ \E text \in SessionTexts : \E org_text \in OrgTexts :
           Untouched(Settings(Entered(text), Cancelled))

\* lines 243-247: both prompts confirmed, a stripped text empty
SettingsRejected ==
    /\ phase = "running"
    /\ \E text \in SessionTexts : \E org_text \in OrgTexts :
           /\ ~(Strip(text) # <<>> /\ Strip(org_text) # <<>>)
           /\ Untouched(Settings(Entered(text), Entered(org_text)))

\* save_credentials (lines 114-118)
save_credentials(st, session_key, org_id) ==
    [store |-> [session_key |-> session_key, org_id |-> org_id],
     api |-> ClaudeAPI(session_key, org_id)]

\* lines 236-242: both prompts confirmed with non-empty stripped texts, the
\* credentials saved and one refresh run
SettingsSaved(R) ==
    /\ phase = "running"
    /\ \E text \in SessionTexts : \E org_text \in OrgTexts :
           LET session_key == Strip(text)
               org_id == Strip(org_text)
               saved == save_credentials(store, session_key, org_id)
           IN  /\ session_key # <<>> /\ org_id # <<>>
               /\ store' = saved.store
               /\ api' = saved.api
               /\ RunRefresh(api', Settings(Entered(text), Entered(org_text)),
                             R)
    /\ UNCHANGED <<phase, probe>>

\* the same path with keyring.set_password raising in save_credentials: at
\* the first write nothing is stored, at the second the session key is
\* stored and the organization id is not; the client is not rebuilt and no
\* refresh runs
SettingsWriteFailed ==
    /\ phase = "running"
    /\ \E text \in SessionTexts : \E org_text \in OrgTexts :
       \E failing \in 1..2 :
           LET session_key == Strip(text)
               org_id == Strip(org_text)
           IN  /\ session_key # <<>> /\ org_id # <<>>
               /\ store' = IF failing = 1 THEN store
                           ELSE [store EXCEPT !.session_key = session_key]
               /\ last' = Settings(Entered(text), Entered(org_text))
    /\ http' = NoRequest
    /\ raised' = "KeyringError"
    /\ UNCHANGED <<phase, api, usage_data, title, rows, probe>>

\* quit_app, the "Quit" item
Quit ==
    /\ phase = "running"
    /\ phase' = "quit"
    /\ http' = NoRequest
    /\ raised' = "none"
    /\ last' = Callback("quit")
    /\ UNCHANGED <<store, api, usage_data, title, rows, probe>>

\* the application over its whole life, the HTTP layer answering with one
\* of MainResponses
Next ==
    \/ Start(MainResponses)
    \/ TimerTick(MainResponses)
    \/ RefreshNow(MainResponses)
    \/ SettingsOpenBrowser
    \/ SettingsCancelSession
    \/ SettingsCancelOrg
    \/ SettingsRejected
    \/ SettingsSaved(MainResponses)
    \/ SettingsWriteFailed
    \/ Quit

Spec == Init /\ [][Next]_vars

\* the construction alone, its first refresh cycle answered with any of
\* Responses
NextStartup == Start(Responses)

SpecStartup == Init /\ [][NextStartup]_vars

-----------------------------------------------------------------------------
(* The countdown formatter on its own *)

\* reset instants h hours, m minutes, s seconds and f ticks after tick 0
FmtResetTicks ==
    {((h * 60 + m) * 60 + s) * Resolution + f :
        h \in 0..MaxHours, m \in {0, 1, 59}, s \in {0, 1, 59}, f \in {0, 1}}

FmtNows == Instants \cup {3600 * Resolution + 1}

FmtInputs ==
    {RstAbsent, RstEmpty, RstFalsy, RstNonStr, RstGarbage, RstNaive}
        \cup {RstAware(t) : t \in FmtResetTicks}

InitFmt ==
    /\ phase = "constructing"
    /\ store = [session_key |-> <<>>, org_id |-> <<>>]
    /\ api = NoApi
    /\ usage_data = None
    /\ title = TitlePlaceholder
    /\ rows = InitialRows
    /\ http = NoRequest
    /\ raised = "none"
    /\ last = Callback("none")
    /\ probe \in [reset : FmtInputs, now : FmtNows, res : {CdUnknown},
                  done : {FALSE}]

\* one call of format_time_until(probe.reset) with the clock at probe.now
FmtCall ==
    /\ ~probe.done
    /\ probe' = [probe EXCEPT !.res = format_time_until(probe.reset, probe.now),
                              !.done = TRUE]
    /\ UNCHANGED <<phase, store, api, usage_data, title, rows, http, raised,
                   last>>

NextFmt == FmtCall

SpecFmt == InitFmt /\ [][NextFmt]_vars

-----------------------------------------------------------------------------
(* Properties *)

FailureKinds == {"network", "status", "badjson"}
CycleCallbacks == {"start", "timer", "refresh_now"}

\* a window as the data model has it: missing, or a record whose
\* percent_used, when there, is a number
WellFormedWindow(w) ==
    \/ w.kind = "absent"
    \/ w.kind = "dict" /\ w.pct.k \in {"absent", "num"}

\* a snapshot as the data model has it: an object of such windows
WellFormed(b) ==
    /\ b.kind = "object"
    /\ WellFormedWindow(b.five_hour)
    /\ WellFormedWindow(b.seven_day)
    /\ WellFormedWindow(b.seven_day_sonnet)

\* n is p/10 rounded to a nearest whole number, to the even one of two
Nearest(n, p) == 10 * n - p <= 5 /\ p - 10 * n <= 5
NearestEven(n, p) ==
    /\ Nearest(n, p)
    /\ (10 * n - p = 5 \/ p - 10 * n = 5) => n % 2 = 0

\* the countdowns a cycle can show for resets_at r
Countdowns(r) == {TimeOf(r, n) : n \in Instants}

\* C1: a step that runs a refresh cycle whose fetch fails (network error,
\* status not 2xx, body no JSON) sets the title to "Claude: Error" and leaves
\* the three rows and usage_data as they were
C1_FailedFetchKeepsRows ==
    [][http'.kind \in FailureKinds =>
         /\ title' = TitleError
         /\ rows' = rows
         /\ usage_data' = usage_data]_vars

\* C1 witness: a fetch has failed over rows rendered by an earlier cycle
C1_Witness ==
    /\ http.kind \in FailureKinds
    /\ title = TitleError
    /\ rows.Session.kind = "usage"
    /\ usage_data.kind = "object"

\* C2: after a refresh cycle run without a client the title is
\* "Claude: Setup", the three rows read "Not configured" and no request was
\* issued
C2_NoClientShowsSetup ==
    (last.op \in CycleCallbacks /\ ~api.set) =>
        /\ title = TitleSetup
        /\ rows = NotConfiguredRows
        /\ http = NoRequest

\* C2 witness: the timer has run a cycle without a client
C2_Witness ==
    /\ last.op = "timer"
    /\ ~api.set
    /\ title = TitleSetup
    /\ rows = NotConfiguredRows

\* C3: after a fetch that returned a well-formed snapshot, whichever of
\* five_hour and seven_day it holds, the title shows the five-hour percentage
\* (0 when five_hour is missing) and the Session and Weekly rows show a
\* percentage and a countdown
C3_MissingKeysRenderZero ==
    (http.kind = "ok" /\ WellFormed(http.body)) =>
        /\ title.kind = "pct"
        /\ rows.Session.kind = "usage"
        /\ rows.Weekly.kind = "usage"
        /\ http.body.five_hour.kind = "absent" =>
               title.n = 0 /\ rows.Session.n = 0
        /\ http.body.seven_day.kind = "absent" => rows.Weekly.n = 0

\* C4 as claimed, a half rounding up: after a completed refresh of a snapshot
\* with five_hour.percent_used = p the title is "Claude: <p rounded>%"
C4_TitleRoundsHalfUp ==
    (/\ http.kind = "ok"
     /\ http.body.kind = "object"
     /\ http.body.five_hour.kind = "dict"
     /\ http.body.five_hour.pct.k = "num"
     /\ raised = "none") =>
        title = TitlePct((http.body.five_hour.pct.v + 5) \div 10)

\* C4: after a completed refresh of a snapshot with five_hour.percent_used =
\* p >= 0 the title is "Claude: <n>%" with n a whole number nearest to p, the
\* even one when p lies halfway between two
C4_TitleRoundsHalfEven ==
    (/\ http.kind = "ok"
     /\ http.body.kind = "object"
     /\ http.body.five_hour.kind = "dict"
     /\ http.body.five_hour.pct.k = "num"
     /\ raised = "none") =>
        /\ title.kind = "pct"
        /\ NearestEven(title.n, http.body.five_hour.pct.v)

\* C4 witness: 2.5 percent is shown as "Claude: 2%"
C4_Witness ==
    /\ http.kind = "ok"
    /\ http.body.five_hour.pct = PctNum(25)
    /\ raised = "none"
    /\ title = TitlePct(2)

\* C5: after a fetch that returned a well-formed snapshot the Sonnet row is
\* "Sonnet: N/A" when seven_day_sonnet is missing, and shows the rounded
\* percentage and the countdown of resets_at when seven_day_sonnet holds both
\* fields
C5_SonnetRow ==
    (http.kind = "ok" /\ WellFormed(http.body)) =>
        LET w == http.body.seven_day_sonnet
        IN  /\ w.kind = "absent" => rows.Sonnet = RowNA
            /\ (w.kind = "dict" /\ w.pct.k = "num" /\ w.reset.k # "absent") =>
                   /\ rows.Sonnet.kind = "usage"
                   /\ Nearest(rows.Sonnet.n, w.pct.v)
                   /\ rows.Sonnet.cd \in Countdowns(w.reset)

\* C6: after a completed refresh of a snapshot whose seven_day_sonnet is the
\* empty record the Sonnet row reads "Sonnet: 0% (resets in ?)", and the row
\* reads "Sonnet: N/A" only when the key is missing
C6_EmptySonnetRecord ==
    (http.kind = "ok" /\ WellFormed(http.body) /\ raised = "none") =>
        /\ http.body.seven_day_sonnet = WEmpty =>
               rows.Sonnet = RowUsage(0, CdUnknown)
        /\ rows.Sonnet = RowNA => http.body.seven_day_sonnet.kind = "absent"

\* C7: for a timestamp that names an instant, with d the whole seconds from
\* now to the reset: "now" when the reset is not after now, else "<H>h <M>m"
\* when d is an hour or more and "<M>m" when it is less, H = d div 3600 and
\* M = (d mod 3600) div 60
C7_Countdown ==
    (probe.done /\ probe.reset.k = "aware") =>
        LET d == (probe.reset.t - probe.now) \div Resolution
            H == d \div 3600
            M == (d % 3600) \div 60
        IN  IF probe.reset.t <= probe.now THEN probe.res = CdNow
            ELSE IF d >= 60 * 60 THEN probe.res = CdHM(H, M)
            ELSE probe.res = CdM(M)

\* C7 witness: a reset less than a minute ahead gives "0m"
C7_Witness ==
    /\ probe.done
    /\ probe.reset.k = "aware"
    /\ probe.reset.t > probe.now
    /\ probe.res = CdM(0)

\* C8: a cycle over a well-formed snapshot completes once a window record
\* is there, and the row of every window record (for seven_day_sonnet, of
\* every record that is not empty) whose resets_at is missing, empty, no
\* string or no timestamp of an instant shows the countdown "?"
C8_CountdownTotal ==
    (http.kind = "ok" /\ WellFormed(http.body)) =>
        LET five == http.body.five_hour
            seven == http.body.seven_day
            sonnet == http.body.seven_day_sonnet
        IN  /\ "dict" \in {five.kind, seven.kind, sonnet.kind} =>
                   raised = "none"
            /\ (five.kind = "dict" /\ five.reset.k # "aware") =>
                   rows.Session.kind = "usage" /\ rows.Session.cd = CdUnknown
            /\ (seven.kind = "dict" /\ seven.reset.k # "aware") =>
                   rows.Weekly.kind = "usage" /\ rows.Weekly.cd = CdUnknown
            /\ (sonnet.kind = "dict" /\ sonnet # WEmpty
                    /\ sonnet.reset.k # "aware") =>
                   rows.Sonnet.kind = "usage" /\ rows.Sonnet.cd = CdUnknown

\* C8 witness: a timestamp without zone under five_hour is shown as "?"
C8_Witness ==
    /\ http.kind = "ok"
    /\ http.body.five_hour.kind = "dict"
    /\ http.body.five_hour.reset = RstNaive
    /\ raised = "none"
    /\ rows.Session = RowUsage(73, CdUnknown)

\* C9: a settings action in which a prompt is cancelled or comes back blank
\* leaves the keyring entries, the client, the title and the rows as they
\* were and issues no request
C9_AbortedSettingsChangeNothing ==
    [][(/\ last'.op = "settings"
        /\ \/ last'.session \in {"cancel", "blank"}
           \/ last'.org \in {"cancel", "blank"}) =>
           /\ store' = store
           /\ api' = api
           /\ title' = title
           /\ rows' = rows
           /\ usage_data' = usage_data
           /\ http' = NoRequest]_vars

\* C9 witness: a blank organization id was submitted over a rendered display
C9_Witness ==
    /\ last = Settings("text", "blank")
    /\ api.set
    /\ title.kind = "pct"
    /\ rows.Session.kind = "usage"

\* C10: whatever the fetch returns, the cycle ends without an exception
\* leaving the handler and the application keeps running
C10_NothingFatal ==
    /\ phase # "crashed"
    /\ http.kind # "none" => raised = "none"

\* the most recent callback ran a refresh cycle: the start, a timer tick, a
\* manual refresh, or a settings action that got as far as its refresh
RanCycle ==
    \/ last.op \in CycleCallbacks
    \/ last = Settings("text", "text") /\ raised # "KeyringError"

\* the displays the latest cycle's input gives by itself: those of a cycle
\* with the same client and the same answer run on the display as built
FreshDisplays ==
    {[title |-> c.title, rows |-> c.rows] :
        c \in {refresh(api, None, TitlePlaceholder, InitialRows, http,
                       n[1], n[2], n[3]) :
                  n \in {m \in Instants \X Instants \X Instants :
                            m[1] <= m[2] /\ m[2] <= m[3]}}}

C12_NoRetry ==
    /\ http.sent <= 1
    /\ http.sent = 1 => RanCycle /\ api.set
    /\ http.kind \in FailureKinds => http.sent = 1 /\ title = TitleError

\* C12 witness: a timer tick's fetch failed after one request
C12_Witness ==
    /\ last.op = "timer"
    /\ http.kind \in FailureKinds
    /\ http.sent = 1

\* v is text without its leading and trailing blanks, and is not empty
TrimOf(v, text) ==
    /\ v # <<>>
    /\ v[1] # " " /\ v[Len(v)] # " "
    /\ \E i \in 0..Len(text) :
           /\ i + Len(v) <= Len(text)
           /\ SubSeq(text, i + 1, i + Len(v)) = v
           /\ \A k \in 1..Len(text) :
                  (k <= i \/ k > i + Len(v)) => text[k] = " "

\* the step is a settings action that found both texts non-empty and whose
\* keyring writes went through
SavedStep ==
    /\ last' = Settings("text", "text")
    /\ raised' # "KeyringError"

\* C13: a settings action with both prompts confirmed non-empty stores the
\* two trimmed texts, builds the client from exactly them and runs one
\* refresh with that client, so that afterwards the title is not "Setup"
C13_SaveRefreshes ==
    [][SavedStep =>
           /\ \E text \in SessionTexts : \E org_text \in OrgTexts :
                  /\ TrimOf(store'.session_key, text)
                  /\ TrimOf(store'.org_id, org_text)
           /\ api' = ClaudeAPI(store'.session_key, store'.org_id)
           /\ http'.sent = 1
           /\ title' # TitleSetup]_vars

\* the step leaves the client alone and runs the refresh cycle on the state
\* it starts in, for the fetch outcome that http' shows
CycleEffect ==
    /\ api' = api
    /\ store' = store
    /\ \E n1 \in Instants : \E n2 \in n1..MaxNow : \E n3 \in n2..MaxNow :
           LET c == refresh(api, usage_data, title, rows, http', n1, n2, n3)
           IN  /\ usage_data' = c.usage_data
               /\ title' = c.title
               /\ rows' = c.rows
               /\ http' = c.http
               /\ raised' = c.raised

\* C14: "Refresh Now" and a timer tick do the same: from every state and
\* for every fetch outcome either one leaves the client, the last snapshot,
\* the title and the rows that one refresh cycle on that state and outcome
\* gives
C14_ManualSameAsTimer ==
    [][last'.op \in {"timer", "refresh_now"} => CycleEffect]_vars

\* C14 witness: a manual refresh rendered a snapshot
C14_Witness ==
    /\ last.op = "refresh_now"
    /\ http.kind = "ok"
    /\ title.kind = "pct"
    /\ usage_data = http.body

\* C15: between callbacks the client agrees with the keyring: there is a
\* client exactly when both stored entries are non-empty, and its session
\* key and organization id are the stored ones, also after a save in which
\* a keyring write failed
C15_ClientAgreesWithStore ==
    phase # "constructing" =>
        /\ api.set <=> (store.session_key # <<>> /\ store.org_id # <<>>)
        /\ api.set =>
               /\ api.session_key = store.session_key
               /\ api.org_id = store.org_id

\* the displays that update_display gives for the snapshot in usage_data
SnapshotDisplays ==
    {[title |-> c.title, rows |-> c.rows] :
        c \in {update_display(usage_data, TitlePlaceholder, InitialRows,
                              n[1], n[2], n[3]) :
                  n \in {m \in Instants \X Instants \X Instants :
                            m[1] <= m[2] /\ m[2] <= m[3]}}}

\* C16: whenever the title shows a percentage, the title and all three
\* rows are those of one snapshot, the one held in usage_data
C16_DisplayFromOneSnapshot ==
    title.kind = "pct" =>
        [title |-> title, rows |-> rows] \in SnapshotDisplays

\* the step is a settings save in which both prompts were confirmed with
\* their pre-filled texts as they were
ResaveUnedited ==
    /\ phase = "running"
    /\ SavedStep
    /\ LET session_key == Strip(DefaultSessionText(store.session_key))
           org_id == Strip(store.org_id)
           saved == save_credentials(store, session_key, org_id)
       IN  /\ session_key # <<>> /\ org_id # <<>>
           /\ store' = saved.store
           /\ api' = saved.api

\* C17: saving again without editing the pre-filled texts changes nothing:
\* the stored session key, the stored organization id and the client's
\* credentials are what they were, for every stored session key
C17_ResaveIdempotent ==
    [][ResaveUnedited => store' = store /\ api' = api]_vars

\* C18: a client, once there, stays: no step takes it away, and with a
\* client the title is never "Setup" and no step puts "Not configured"
\* into a row
C18_ConfiguredStays ==
    [][/\ api.set => api'.set
       /\ api'.set => title' # TitleSetup
       /\ api.set =>
              \A k \in DOMAIN rows :
                  rows'[k] = RowNotConfigured => rows[k] = RowNotConfigured]_vars

====
